---- MODULE Spec2Model ----
(***************************************************************************)
(* Model of commit-msg: the OpenAI chat completion client                  *)
(* (internal/openai) and the commit message assistant                      *)
(* (internal/commitassist).                                                *)
(*                                                                         *)
(* Conventions.                                                            *)
(*  - A Go string is a sequence of one-character strings, so that          *)
(*    strings.Contains and string concatenation are computed, not assumed. *)
(*    The long fixed prompt texts are kept as sequences of named segments. *)
(*  - A Go error is the sequence of its Unwrap chain, outermost first;     *)
(*    nil is the empty sequence.  Each layer has its dynamic type and its  *)
(*    own text.                                                            *)
(*  - float64 dollars and cents are fixed-point integers in units of       *)
(*    1/MoneyScale; float32 temperatures are integers in units of          *)
(*    1/TempScale.                                                         *)
(***************************************************************************)
EXTENDS Integers, Sequences, FiniteSets, TLC

\* ------------------------------------------------------------------ bounds
MaxChoices == 2
MaxKiloTokens == 2

\* ------------------------------------------------------- numeric encoding
TempScale == 10
MoneyScale == 1000000
PricePer1K == 2000
StatusOK == 200
AssistTemperature == 2
CentsPerDollar == 100

\* ------------------------------------------------------------ openai types
GPT3_5Turbo == "gpt-3.5-turbo"
OtherModel == "text-davinci-003"

UserRole == "user"
SystemRole == "system"
AssistantRole == "assistant"

chatCompletionURL == "https://api.openai.com/v1/chat/completions"

Message(role, content) == [Role |-> role, Content |-> content]

\* aiModel.Cost, in 1/MoneyScale dollars
Cost_NoGuard(m, totalTokens) ==
    IF m = GPT3_5Turbo THEN (totalTokens * PricePer1K) \div 1000
    ELSE 0

Cost(m, totalTokens) ==
    IF totalTokens <= 0 THEN 0
    ELSE IF m = GPT3_5Turbo THEN (totalTokens * PricePer1K) \div 1000
    ELSE 0

calculateCost(totalTokens, m) == Cost(m, totalTokens)

\* ------------------------------------------------------------------ errors
NoError == <<>>

Layer(type, msg) == [type |-> type, msg |-> msg]

\* context.DeadlineExceeded, the sentinel of package context
DeadlineExceeded == <<Layer("context.deadlineExceededError", <<"context deadline exceeded">>)>>

\* fmt.Errorf without a %w verb
ErrorString(msg) == <<Layer("*errors.errorString", msg)>>

\* fmt.Errorf("<prefix>: %w", err)
Wrap_Flatten(prefix, err) == <<Layer("*fmt.wrapError", prefix)>>

Wrap(prefix, err) == <<Layer("*fmt.wrapError", prefix)>> \o err

\* errors.Is(err, target) for a sentinel target
ErrorsIs(err, target) == \E i \in 1..Len(err) : err[i] = target[1]

\* strconv-style decimal rendering used by the %d verb, for n >= 0
Digits == <<"0", "1", "2", "3", "4", "5", "6", "7", "8", "9">>

RECURSIVE Itoa(_)
Itoa(n) ==
    IF n < 10 THEN <<Digits[n + 1]>>
    ELSE Itoa(n \div 10) \o <<Digits[(n % 10) + 1]>>

\* the %q verb
Quote(s) == <<"\"">> \o s \o <<"\"">>

\* strings.Contains(s, substr)
Contains_Prefix(s, substr) ==
    /\ Len(s) >= Len(substr)
    /\ SubSeq(s, 1, Len(substr)) = substr

Contains(s, substr) ==
    \E i \in 0..(Len(s) - Len(substr)) :
        SubSeq(s, i + 1, i + Len(substr)) = substr

\* -------------------------------------------------------- commitassist types
DescriptiveAndNeutral == "DescriptiveAndNeutral"
ConversationalAndCasual == "ConversationalAndCasual"
ListBased == "ListBased"
ProblemSolution == "ProblemSolution"

Styles == {DescriptiveAndNeutral, ConversationalAndCasual, ListBased, ProblemSolution}

UnsureMarker == <<"u", "n", "s", "u", "r", "e">>

\* ValidateMessageStyle: the style and the error it returns
ValidateMessageStyle_AcceptAll(assumedStyle) ==
    [style |-> assumedStyle, err |-> NoError]

ValidateMessageStyle(assumedStyle) ==
    IF assumedStyle \in Styles
    THEN [style |-> assumedStyle, err |-> NoError]
    ELSE [style |-> "", err |-> ErrorString(<<"invalid style ">> \o Quote(<<assumedStyle>>))]

\* MessageConfig; a nil *MessageConfig has isNil = TRUE
MessageConfig(style, ccc) ==
    [isNil |-> FALSE, Style |-> style, ConventionalCommitCompliant |-> ccc]

NilConfig == [isNil |-> TRUE, Style |-> "", ConventionalCommitCompliant |-> FALSE]

\* GetCommitMessage, lines 96-100: the config used when cfg == nil
DefaultConfig_Conventional(cfg) ==
    IF cfg.isNil THEN MessageConfig(DescriptiveAndNeutral, TRUE) ELSE cfg

DefaultConfig(cfg) ==
    IF cfg.isNil THEN MessageConfig(DescriptiveAndNeutral, FALSE) ELSE cfg

\* styleDescriptions[style]; a missing key yields the empty string
styleDescriptions(style) ==
    CASE style = DescriptiveAndNeutral -> "descriptive and neutral. Use clear, concise language ..."
      [] style = ConversationalAndCasual -> "conversational and casual using informal language ..."
      [] style = ListBased -> "list-based. Use bullet points or numbered lists ..."
      [] style = ProblemSolution -> "problem-solution oriented. Begin by clearly outlining ..."
      [] OTHER -> ""

ConventionalCommitInstruction ==
    "Use the conventional commit standard, including any breaking changes, which should be denoted with a '!' (e.g., 'feat!')."

conventionalCommitContent_Always(cfg) == ConventionalCommitInstruction

conventionalCommitContent(cfg) ==
    IF cfg.ConventionalCommitCompliant THEN ConventionalCommitInstruction ELSE ""

SystemPreamble ==
    "You are an insightful assistant that crafts commit messages. ... The style of the commit message should be "

ExemplarDiff ==
    <<"diff --git a/README.md b/README.md ... +bothers you - don't use this tool.">>

\* getExpectedMessage
getExpectedMessage(style, conventionalCommitCompliant) ==
    LET expectedMessage ==
            CASE style = DescriptiveAndNeutral ->
                     <<"Add README.md to explain the tool usage\n\n", "This commit adds a new README.md file ...">>
              [] style = ConversationalAndCasual ->
                     <<"Unleashing a brand new README.md to demystify our OpenAI-powered commit message wizardry!\n\n", "Hey folks, ...">>
              [] style = ListBased ->
                     <<"Introducing README.md to illuminate tool usage\n\n ", "In this commit: ...">>
              [] style = ProblemSolution ->
                     <<"Addressing the lack of clarity with new README.md\n\n", "Problem: ... Solution: ...">>
              [] OTHER -> <<>>
    IN  IF conventionalCommitCompliant
        THEN <<"feat: ">> \o expectedMessage
        ELSE expectedMessage

\* the message list GetCommitMessage passes to doChatCompletionRequest
BuildMessages_NoExemplar(cfg, diff) ==
    << Message(SystemRole,
               <<SystemPreamble, styleDescriptions(cfg.Style), ".\n",
                 conventionalCommitContent(cfg), "\n">>),
       Message(UserRole, diff) >>

BuildMessages(cfg, diff) ==
    << Message(SystemRole,
               <<SystemPreamble, styleDescriptions(cfg.Style), ".\n",
                 conventionalCommitContent(cfg), "\n">>),
       Message(UserRole, ExemplarDiff),
       Message(AssistantRole,
               getExpectedMessage(cfg.Style, cfg.ConventionalCommitCompliant)),
       Message(UserRole, diff) >>

\* GetTypeResponse
GetTypeResponse(message, cost) == [Message |-> message, Cost |-> cost]

ZeroGetTypeResponse == GetTypeResponse(<<>>, 0)

UnexpectedStateError(n) ==
    <<Layer("commitassist.UnexpectedStateError",
            <<"unexpected number of messages returned, got ">> \o Itoa(n))>>

UnsureError(message) == <<Layer("commitassist.UnsureError", message)>>

\* ------------------------------------------------------ the OpenAI client
\* ChatCompletionRequest, line 112: the temperature check
ValidTemperature_NoUpper(t) == ~(t < 0)

ValidTemperature(t) == ~(t < 0 \/ t > 1 * TempScale)

\* the %f verb applied to a temperature
FormatF(t) ==
    LET a == IF t < 0 THEN 0 - t ELSE t
    IN  (IF t < 0 THEN <<"-">> ELSE <<>>)
        \o Itoa(a \div TempScale) \o <<".">> \o Itoa(a % TempScale) \o <<"00000">>

TemperatureError(t) ==
    ErrorString(<<"temperature must be between 0 and 1 (inclusive), got ">> \o FormatF(t))

\* chatCompletionRequest as built at lines 116-119: the Temperature field
\* is not assigned and keeps the zero value of float32
RequestBody(messages, m, t) ==
    [Model |-> m, Messages |-> messages, Temperature |-> 0]

\* the *http.Request handed to Doer.Do
HTTPRequest(key, messages, m, t) ==
    [Method |-> "POST",
     URL |-> chatCompletionURL,
     ContentType |-> "application/json",
     Authorization |-> <<"Bearer ", key>>,
     Body |-> RequestBody(messages, m, t)]

\* chatCompletionResponse
ChatCompletionResponse(created, m, cost, answers) ==
    [Created |-> created, Model |-> m, Cost |-> cost, Messages |-> answers]

ZeroChatCompletionResponse == ChatCompletionResponse(0, "", 0, <<>>)

\* rawChatCompletionChoiceResponse and its Content method
Choice(content, index) ==
    [Message |-> [Role |-> AssistantRole, Content |-> content],
     FinishReason |-> "stop",
     Index |-> index]

Content(c) == c.Message.Content

\* --------------------------------------------- what the provider can answer
CreatedStamp == 1677652288

AnsFeat == <<"f", "e", "a", "t", ":", " ", "X", "\n", "\n", "b">>
AnsPadded == <<" ", "f", "i", "x", "\n">>
AnsUnsure == <<"u", "n", "s", "u", "r", "e">>
AnsUnsureMid == <<"I", " ", "a", "m", " ", "u", "n", "s", "u", "r", "e", "!">>
AnsUnsureOverlap == <<"u", "n", "s", "u", "n", "s", "u", "r", "e">>
AnsCapital == <<"U", "n", "s", "u", "r", "e">>

Answers == {AnsFeat, AnsPadded, AnsUnsure, AnsUnsureMid, AnsUnsureOverlap, AnsCapital}

\* the answers that follow the first one in a response with several choices
ExtraAnswers == {AnsFeat, AnsUnsure}

ChoiceLists ==
    {<<>>} \cup UNION {{<<a>> \o rest : a \in Answers, rest \in [1..(n - 1) -> ExtraAnswers]} :
                       n \in 1..MaxChoices}

TokenCounts == {-1, 0, 1} \cup {1000 * k : k \in 1..MaxKiloTokens}

\* a response body: a JSON object of the expected shape whose usage and
\* choices members may be missing, or a body that is not such an object
ObjectBody(hasUsage, tokens, hasChoices, contents) ==
    [kind |-> "object", hasUsage |-> hasUsage, total_tokens |-> tokens,
     hasChoices |-> hasChoices, contents |-> contents]

BrokenBody(kind) ==
    [kind |-> kind, hasUsage |-> FALSE, total_tokens |-> 0,
     hasChoices |-> FALSE, contents |-> <<>>]

NoBody == BrokenBody("none")

Bodies ==
    {ObjectBody(TRUE, n, TRUE, <<a>>) : n \in TokenCounts, a \in Answers}
    \cup {ObjectBody(TRUE, 1000, TRUE, c) : c \in ChoiceLists}
    \cup {ObjectBody(FALSE, 0, TRUE, c) : c \in {l \in ChoiceLists : Len(l) <= 1}}
    \cup {ObjectBody(TRUE, n, FALSE, <<>>) : n \in TokenCounts}
    \cup {ObjectBody(FALSE, 0, FALSE, <<>>)}
    \cup {BrokenBody(k) : k \in {"malformed", "empty", "badtype"}}

Statuses == {<<200, "200 OK">>, <<401, "401 Unauthorized">>,
             <<429, "429 Too Many Requests">>, <<500, "500 Internal Server Error">>}

\* what Doer.Do returns: an error, or a response with status and body
DoError(err) == [err |-> err, StatusCode |-> 0, Status |-> "", Body |-> NoBody]

DoResponse(st, body) ==
    [err |-> NoError, StatusCode |-> st[1], Status |-> st[2], Body |-> body]

NoResponse == DoError(NoError)

\* *url.Error returned by http.Client.Do, wrapping its cause
UrlError(cause) ==
    <<Layer("*url.Error", <<"Post ", Quote(<<chatCompletionURL>>), ": ">>)>> \o cause

ConnectionRefused == <<Layer("*net.OpError", <<"dial tcp: connect: connection refused">>)>>

\* json.NewDecoder(resp.Body).Decode(&cResponse), lines 145-150: members
\* missing from the object leave the zero value in the struct
Decode_Lenient(body, readErr) ==
    [err |-> NoError,
     raw |-> [Created |-> CreatedStamp,
              Usage |-> [TotalTokens |-> body.total_tokens],
              Choices |-> [i \in 1..Len(body.contents) |-> Choice(body.contents[i], i - 1)]]]

Decode(body, readErr) ==
    LET zero == [Created |-> 0, Usage |-> [TotalTokens |-> 0], Choices |-> <<>>]
    IN  IF readErr # NoError THEN [err |-> readErr, raw |-> zero]
        ELSE IF body.kind = "malformed"
             THEN [err |-> <<Layer("*json.SyntaxError", <<"invalid character">>)>>, raw |-> zero]
        ELSE IF body.kind = "empty"
             THEN [err |-> <<Layer("*errors.errorString", <<"EOF">>)>>, raw |-> zero]
        ELSE IF body.kind = "badtype"
             THEN [err |-> <<Layer("*json.UnmarshalTypeError", <<"json: cannot unmarshal">>)>>, raw |-> zero]
        ELSE [err |-> NoError,
              raw |-> [Created |-> CreatedStamp,
                       Usage |-> [TotalTokens |-> IF body.hasUsage THEN body.total_tokens ELSE 0],
                       Choices |-> IF body.hasChoices
                                   THEN [i \in 1..Len(body.contents) |-> Choice(body.contents[i], i - 1)]
                                   ELSE <<>>]]

\* a (response, error) pair returned by ChatCompletionRequest
ClientReturn(resp, err) == [resp |-> resp, err |-> err]

NoClientReturn == ClientReturn(ZeroChatCompletionResponse, NoError)

\* ChatCompletionRequest, lines 134-143: after Do returned
AfterDo_NoStatusCheck(r) ==
    IF r.err # NoError
    THEN ClientReturn(ZeroChatCompletionResponse, Wrap(<<"could not do request: ">>, r.err))
    ELSE NoClientReturn

AfterDo(r) ==
    IF r.err # NoError
    THEN ClientReturn(ZeroChatCompletionResponse, Wrap(<<"could not do request: ">>, r.err))
    ELSE IF r.StatusCode # StatusOK
    THEN ClientReturn(ZeroChatCompletionResponse,
                      ErrorString(<<"got status code ">> \o Quote(<<r.Status>>)
                                  \o <<", expected ">> \o Itoa(StatusOK)))
    ELSE NoClientReturn

\* ChatCompletionRequest, lines 145-164: decoding the body of a 200 response
AfterDecode_Reversed(d, m) ==
    IF d.err # NoError
    THEN ClientReturn(ZeroChatCompletionResponse, Wrap(<<"could not decode response: ">>, d.err))
    ELSE ClientReturn(
             ChatCompletionResponse(d.raw.Created, m,
                                    calculateCost(d.raw.Usage.TotalTokens, m),
                                    [i \in 1..Len(d.raw.Choices) |->
                                        Content(d.raw.Choices[Len(d.raw.Choices) + 1 - i])]),
             NoError)

AfterDecode(d, m) ==
    IF d.err # NoError
    THEN ClientReturn(ZeroChatCompletionResponse, Wrap(<<"could not decode response: ">>, d.err))
    ELSE ClientReturn(
             ChatCompletionResponse(d.raw.Created, m,
                                    calculateCost(d.raw.Usage.TotalTokens, m),
                                    [i \in 1..Len(d.raw.Choices) |-> Content(d.raw.Choices[i])]),
             NoError)

\* ------------------------------------------------- doChatCompletionRequest
AssistReturn(resp, err) == [resp |-> resp, err |-> err]

NoAssistReturn == AssistReturn(ZeroGetTypeResponse, NoError)

\* line 181: dollars to cents
ToCents_Identity(dollars) == dollars

ToCents(dollars) == dollars * CentsPerDollar

\* line 169: the number of answers the assistant accepts
ExpectedCount_AtLeastOne(n) == n >= 1

ExpectedCount(n) == n = 1

\* line 164: the model and the temperature GetCommitMessage always passes
AssistArgs_Hot == [model |-> GPT3_5Turbo, temperature |-> 2 * TempScale]

AssistArgs == [model |-> GPT3_5Turbo, temperature |-> AssistTemperature]

\* lines 165-167: the client's error as returned to the caller
ClientFailure_Swallow(err) == AssistReturn(ZeroGetTypeResponse, NoError)

ClientFailure(err) ==
    AssistReturn(ZeroGetTypeResponse, Wrap(<<"could not do ChatCompletionRequest: ">>, err))

\* lines 169-182: classification of the client's response
Classification_Partial(content) ==
    IF ~ExpectedCount(Len(content.Messages))
    THEN AssistReturn(GetTypeResponse(<<>>, ToCents(content.Cost)),
                      UnexpectedStateError(Len(content.Messages)))
    ELSE LET message == content.Messages[1]
         IN  IF Contains(message, UnsureMarker)
             THEN AssistReturn(GetTypeResponse(message, ToCents(content.Cost)),
                               UnsureError(message))
             ELSE AssistReturn(GetTypeResponse(message, ToCents(content.Cost)), NoError)

Classification(content) ==
    IF ~ExpectedCount(Len(content.Messages))
    THEN AssistReturn(ZeroGetTypeResponse, UnexpectedStateError(Len(content.Messages)))
    ELSE LET message == content.Messages[1]
         IN  IF Contains(message, UnsureMarker)
             THEN AssistReturn(ZeroGetTypeResponse, UnsureError(message))
             ELSE AssistReturn(GetTypeResponse(message, ToCents(content.Cost)), NoError)

\* ------------------------------------------------------------ cmd/cli
\* the text of err.Error(): the layers' texts, outermost first
RECURSIVE ErrorText(_)
ErrorText(err) ==
    IF err = <<>> THEN <<>> ELSE err[1].msg \o ErrorText(Tail(err))

\* strings.HasPrefix(s, prefix)
HasPrefix(s, prefix) ==
    /\ Len(s) >= Len(prefix)
    /\ SubSeq(s, 1, Len(prefix)) = prefix

\* bufio.Scanner with the default split function ScanLines: the lines of
\* data without their end-of-line marker, a trailing "\r" dropped
DropCR(line) ==
    IF Len(line) > 0 /\ line[Len(line)] = "\r"
    THEN SubSeq(line, 1, Len(line) - 1)
    ELSE line

RECURSIVE ScanLines(_)
ScanLines(data) ==
    IF data = <<>> THEN <<>>
    ELSE LET ends == {i \in 1..Len(data) : data[i] = "\n"}
         IN  IF ends = {} THEN <<DropCR(data)>>
             ELSE LET i == CHOOSE j \in ends : \A k \in ends : j <= k
                  IN  <<DropCR(SubSeq(data, 1, i - 1))>>
                      \o ScanLines(SubSeq(data, i + 1, Len(data)))

\* readFile, lines 143-155: every line that does not start with "#" is
\* written to the builder as the scanner returned it
RECURSIVE WriteLines(_)
WriteLines(lines) ==
    IF lines = <<>> THEN <<>>
    ELSE IF HasPrefix(lines[1], <<"#">>) THEN WriteLines(Tail(lines))
    ELSE lines[1] \o WriteLines(Tail(lines))

readFile(data) == WriteLines(ScanLines(data))

\* the %.2f verb applied to a cost in cents
FormatCents(c) ==
    LET h == (c + (MoneyScale \div 200)) \div (MoneyScale \div 100)
    IN  Itoa(h \div 100) \o <<".">> \o Itoa((h \div 10) % 10) \o Itoa(h % 10)

\* handleError: what it prints and the status it exits with
handleError_NoDeadline(err) ==
    IF err[1].type = "commitassist.UnsureError"
    THEN [out |-> <<err[1].msg>>, status |-> 3]
    ELSE IF err[1].type = "commitassist.UnexpectedStateError"
    THEN [out |-> <<<<"Unexpected number of messages returned">>>>, status |-> 2]
    ELSE [out |-> << <<"Unknown error ">> \o ErrorText(err) >>, status |-> 5]

handleError(err) ==
    IF err[1].type = "commitassist.UnsureError"
    THEN [out |-> <<err[1].msg>>, status |-> 3]
    ELSE IF err[1].type = "commitassist.UnexpectedStateError"
    THEN [out |-> <<<<"Unexpected number of messages returned">>>>, status |-> 2]
    ELSE IF ErrorsIs(err, DeadlineExceeded)
    THEN [out |-> << <<"Request timed out.">>,
                     <<"See API status at ", "\"", "https://status.openai.com/", "\"">>,
                     <<"or try again with a longer timeout (see --timeout flag).">> >>,
          status |-> 4]
    ELSE [out |-> << <<"Unknown error ">> \o ErrorText(err) >>, status |-> 5]

\* cliAction, lines 101-111: what the process prints and how it exits once
\* GetCommitMessage has returned
AfterGetCommitMessage(r, costFlag) ==
    IF r.err # NoError
    THEN handleError(r.err)
    ELSE [out |-> <<r.resp.Message>>
                  \o (IF costFlag
                      THEN << <<"Cost ">> \o FormatCents(r.resp.Cost) \o <<" cent">> >>
                      ELSE <<>>),
          status |-> 0]

\* the process: who called, the content of --file, --cost, stdout, exit
Process(caller, file, costFlag) ==
    [caller |-> caller, file |-> file, costFlag |-> costFlag,
     stdout |-> <<>>, exited |-> FALSE, status |-> 0]

NoProc == Process("none", <<>>, FALSE)

\* ------------------------------------------------------------ the inputs
\* contents of the file named by --file
Files == { <<"a", "\n", "#", "c", "\n", "b", "\n">>,
           <<"#", "x", "\n">>,
           <<"a", " ", "#", "b", "\r", "\n", "c">>,
           <<"u", "n", "\n", "s", "u", "r", "e", "\n">> }

APIKeys == {"sk-key"}

Temperatures == {-50, -1, 0, AssistTemperature, 10, 11}

Models == {GPT3_5Turbo, OtherModel}

GitDiffs == {<<"d", "i", "f", "f">>, <<"u", "n", "s", "u", "r", "e">>}

InvalidStyles == {"", "Poetic"}

Configs ==
    {NilConfig}
    \cup {MessageConfig(st, ccc) : st \in Styles, ccc \in BOOLEAN}
    \cup {MessageConfig("", FALSE), MessageConfig("Poetic", TRUE)}

\* a context: whether it has a deadline, and ctx.Err() when the call starts
ContextInputs == {<<FALSE, NoError>>, <<TRUE, NoError>>, <<TRUE, DeadlineExceeded>>}

ClientMessageLists == {<<>>}

\* ------------------------------------------------------------------ state
VARIABLES
    pc,            \* position of the invocation
    entry,         \* "assist": GetCommitMessage, "client": ChatCompletionRequest
    apiKey,        \* openai.Client.apiKey
    gitDiff,       \* argument of GetCommitMessage
    cfg,           \* argument of GetCommitMessage, then the config in use
    ctxDeadline,   \* whether ctx carries a deadline
    ctxErr,        \* ctx.Err()
    expiredWhen,   \* the position at which the deadline passed
    messages,      \* argument of ChatCompletionRequest
    model,         \* argument of ChatCompletionRequest
    temperature,   \* argument of ChatCompletionRequest
    doCalls,       \* the requests handed to Doer.Do, in order
    httpResp,      \* what Doer.Do returned
    clientResult,  \* what ChatCompletionRequest returned
    result,        \* what GetCommitMessage returned
    cfgArg,        \* the cfg argument as the caller passed it
    proc           \* the commit-msg process: its flags, file, output and exit

vars == <<pc, entry, apiKey, cfgArg, proc, gitDiff, cfg, ctxDeadline, ctxErr, expiredWhen,
          messages, model, temperature, doCalls, httpResp, clientResult, result>>

Idle ==
    /\ pc = "Idle"
    /\ entry = "none"
    /\ gitDiff = <<>>
    /\ cfg = NilConfig
    /\ ctxDeadline = FALSE
    /\ ctxErr = NoError
    /\ expiredWhen = "never"
    /\ messages = <<>>
    /\ model = ""
    /\ temperature = 0
    /\ doCalls = <<>>
    /\ httpResp = NoResponse
    /\ clientResult = NoClientReturn
    /\ result = NoAssistReturn
    /\ cfgArg = NilConfig
    /\ proc = NoProc

Init ==
    /\ apiKey \in APIKeys
    /\ Idle

\* ChatCompletionRequest, lines 111-134: from entry until Doer.Do is invoked.
\* Marshalling a list of strings and building a POST request for the fixed
\* URL with a non-nil context do not fail.
StartRequest(msgs, m, t) ==
    /\ messages' = msgs
    /\ model' = m
    /\ temperature' = t
    /\ httpResp' = NoResponse
    /\ IF ~ValidTemperature(t)
       THEN /\ clientResult' = ClientReturn(ZeroChatCompletionResponse, TemperatureError(t))
            /\ doCalls' = doCalls
       ELSE /\ clientResult' = NoClientReturn
            /\ doCalls' = Append(doCalls, HTTPRequest(apiKey, msgs, m, t))

\* a direct call of Client.ChatCompletionRequest
ChatCompletionRequestCall(x, msgs, m, t) ==
    /\ pc = "Idle"
    /\ entry' = "client"
    /\ ctxDeadline' = x[1]
    /\ ctxErr' = x[2]
    /\ expiredWhen' = IF x[2] # NoError THEN "beforeCall" ELSE "never"
    /\ StartRequest(msgs, m, t)
    /\ pc' = IF ValidTemperature(t) THEN "Requesting" ELSE "Done"
    /\ UNCHANGED <<apiKey, cfgArg, proc, gitDiff, cfg, result>>

\* GetCommitMessage is entered
GetCommitMessageCall(x, d, c) ==
    /\ pc = "Idle"
    /\ pc' = "Start"
    /\ entry' = "assist"
    /\ gitDiff' = d
    /\ cfgArg' = c
    /\ cfg' = c
    /\ ctxDeadline' = x[1]
    /\ ctxErr' = x[2]
    /\ expiredWhen' = IF x[2] # NoError THEN "beforeCall" ELSE "never"
    /\ UNCHANGED <<apiKey, proc, messages, model, temperature, doCalls, httpResp,
                   clientResult, result>>

\* GetCommitMessage, lines 96-100
ApplyDefault_EmptyStyle ==
    /\ pc = "Start"
    /\ pc' = "Validating"
    /\ cfg' = IF cfg.isNil \/ cfg.Style = ""
              THEN MessageConfig(DescriptiveAndNeutral, cfg.ConventionalCommitCompliant)
              ELSE cfg
    /\ UNCHANGED <<entry, apiKey, cfgArg, proc, gitDiff, ctxDeadline, ctxErr, expiredWhen,
                   messages, model, temperature, doCalls, httpResp,
                   clientResult, result>>

ApplyDefault ==
    /\ pc = "Start"
    /\ pc' = "Validating"
    /\ cfg' = DefaultConfig(cfg)
    /\ UNCHANGED <<entry, apiKey, cfgArg, proc, gitDiff, ctxDeadline, ctxErr, expiredWhen,
                   messages, model, temperature, doCalls, httpResp,
                   clientResult, result>>

\* GetCommitMessage, lines 102-104: the style is rejected
RejectStyle ==
    /\ pc = "Validating"
    /\ ValidateMessageStyle(cfg.Style).err # NoError
    /\ pc' = "Done"
    /\ result' = AssistReturn(ZeroGetTypeResponse, ValidateMessageStyle(cfg.Style).err)
    /\ UNCHANGED <<entry, apiKey, cfgArg, proc, gitDiff, cfg, ctxDeadline, ctxErr, expiredWhen,
                   messages, model, temperature, doCalls, httpResp, clientResult>>

\* GetCommitMessage, lines 102-164: the style is accepted, the message list
\* is built and handed to ChatCompletionRequest with the fixed model and
\* temperature
SendRequest ==
    /\ pc = "Validating"
    /\ ValidateMessageStyle(cfg.Style).err = NoError
    /\ StartRequest(BuildMessages(cfg, gitDiff), AssistArgs.model, AssistArgs.temperature)
    /\ IF ValidTemperature(AssistArgs.temperature)
       THEN /\ pc' = "Requesting"
            /\ result' = result
       ELSE /\ pc' = "Done"
            /\ result' = ClientFailure(TemperatureError(AssistArgs.temperature))
    /\ UNCHANGED <<entry, apiKey, cfgArg, proc, gitDiff, cfg, ctxDeadline, ctxErr, expiredWhen>>

\* ChatCompletionRequest returns err to its caller
ReturnFromClient_Retry(r) ==
    /\ clientResult' = r
    /\ IF entry = "client"
       THEN /\ pc' = "Done"
            /\ result' = result
       ELSE IF r.err # NoError
       THEN /\ pc' = "Validating"
            /\ result' = result
       ELSE /\ pc' = "Classifying"
            /\ result' = result

ReturnFromClient(r) ==
    /\ clientResult' = r
    /\ IF entry = "client"
       THEN /\ pc' = "Done"
            /\ result' = result
       ELSE IF r.err # NoError
       THEN /\ pc' = "Done"
            /\ result' = ClientFailure(r.err)
       ELSE /\ pc' = "Classifying"
            /\ result' = result

\* what http.Client.Do can return for a request whose context has state e
DoOutcomes(e) ==
    IF e # NoError
    THEN {DoError(UrlError(e))}
    ELSE {DoError(UrlError(ConnectionRefused))}
         \cup {DoResponse(st, b) : st \in {s \in Statuses : s[1] = StatusOK}, b \in Bodies}
         \cup {DoResponse(st, b) : st \in {s \in Statuses : s[1] # StatusOK},
                                   b \in {BrokenBody("malformed"),
                                          ObjectBody(TRUE, 1000, TRUE, <<AnsFeat>>)}}

\* Doer.Do returns with an error or a non-200 status, lines 134-143
DoFails(r) ==
    /\ pc = "Requesting"
    /\ r \in DoOutcomes(ctxErr)
    /\ AfterDo(r).err # NoError
    /\ httpResp' = r
    /\ ReturnFromClient(AfterDo(r))
    /\ UNCHANGED <<entry, apiKey, cfgArg, proc, gitDiff, cfg, ctxDeadline, ctxErr, expiredWhen,
                   messages, model, temperature, doCalls>>

\* Doer.Do returns a 200 response, whose body is still to be read
DoSucceeds(r) ==
    /\ pc = "Requesting"
    /\ r \in DoOutcomes(ctxErr)
    /\ AfterDo(r).err = NoError
    /\ httpResp' = r
    /\ pc' = "Decoding"
    /\ UNCHANGED <<entry, apiKey, cfgArg, proc, gitDiff, cfg, ctxDeadline, ctxErr, expiredWhen,
                   messages, model, temperature, doCalls, clientResult, result>>

\* the errors a read of the body can meet: once the context is done the
\* transport may abort the read with ctx.Err(), or the bytes were buffered
ReadErrors(e) == IF e # NoError THEN {NoError, e} ELSE {NoError}

\* ChatCompletionRequest, lines 145-164: the body is read and decoded
DecodeBody(readErr) ==
    /\ pc = "Decoding"
    /\ readErr \in ReadErrors(ctxErr)
    /\ ReturnFromClient(AfterDecode(Decode(httpResp.Body, readErr), model))
    /\ UNCHANGED <<entry, apiKey, cfgArg, proc, gitDiff, cfg, ctxDeadline, ctxErr, expiredWhen,
                   messages, model, temperature, doCalls, httpResp>>

\* doChatCompletionRequest, lines 169-182
Classify_UnsureFirst ==
    /\ pc = "Classifying"
    /\ pc' = "Done"
    /\ result' =
           LET content == clientResult.resp
           IN  IF \E i \in 1..Len(content.Messages) : Contains(content.Messages[i], UnsureMarker)
               THEN LET i == CHOOSE j \in 1..Len(content.Messages) :
                                 Contains(content.Messages[j], UnsureMarker)
                    IN  AssistReturn(ZeroGetTypeResponse, UnsureError(content.Messages[i]))
               ELSE Classification(content)
    /\ UNCHANGED <<entry, apiKey, cfgArg, proc, gitDiff, cfg, ctxDeadline, ctxErr, expiredWhen,
                   messages, model, temperature, doCalls, httpResp, clientResult>>

Classify ==
    /\ pc = "Classifying"
    /\ pc' = "Done"
    /\ result' = Classification(clientResult.resp)
    /\ UNCHANGED <<entry, apiKey, cfgArg, proc, gitDiff, cfg, ctxDeadline, ctxErr, expiredWhen,
                   messages, model, temperature, doCalls, httpResp, clientResult>>

\* the deadline of the caller's context passes
ContextExpires ==
    /\ pc \in {"Start", "Validating", "Requesting", "Decoding", "Classifying"}
    /\ ctxDeadline
    /\ ctxErr = NoError
    /\ ctxErr' = DeadlineExceeded
    /\ expiredWhen' = pc
    /\ UNCHANGED <<pc, entry, apiKey, cfgArg, proc, gitDiff, cfg, ctxDeadline, messages, model,
                   temperature, doCalls, httpResp, clientResult, result>>

\* cliAction, lines 72-99: the file is read and GetCommitMessage is entered
\* with the context made by context.WithTimeout; main.go passes no config
CliAction(file, costFlag, e) ==
    /\ pc = "Idle"
    /\ pc' = "Start"
    /\ entry' = "assist"
    /\ proc' = Process("cli", file, costFlag)
    /\ gitDiff' = readFile(file)
    /\ cfgArg' = NilConfig
    /\ cfg' = NilConfig
    /\ ctxDeadline' = TRUE
    /\ ctxErr' = e
    /\ expiredWhen' = IF e # NoError THEN "beforeCall" ELSE "never"
    /\ UNCHANGED <<apiKey, messages, model, temperature, doCalls, httpResp,
                   clientResult, result>>

\* cliAction, lines 93-97: the file cannot be opened, log.Fatalf
CliOpenFails ==
    /\ pc = "Idle"
    /\ pc' = "Exited"
    /\ proc' = [Process("cli", <<>>, FALSE) EXCEPT !.exited = TRUE, !.status = 1]
    /\ UNCHANGED <<entry, apiKey, cfgArg, gitDiff, cfg, ctxDeadline, ctxErr,
                   expiredWhen, messages, model, temperature, doCalls, httpResp,
                   clientResult, result>>

\* cliAction, lines 101-111, and handleError
CliFinish ==
    /\ pc = "Done"
    /\ proc.caller = "cli"
    /\ pc' = "Exited"
    /\ LET a == AfterGetCommitMessage(result, proc.costFlag)
       IN  proc' = [proc EXCEPT !.stdout = a.out, !.exited = TRUE, !.status = a.status]
    /\ UNCHANGED <<entry, apiKey, cfgArg, gitDiff, cfg, ctxDeadline, ctxErr,
                   expiredWhen, messages, model, temperature, doCalls, httpResp,
                   clientResult, result>>

\* the invocation is over; its request-scoped values are discarded
Return ==
    /\ \/ pc = "Done" /\ proc.caller # "cli"
       \/ pc = "Exited"
    /\ pc' = "Idle"
    /\ entry' = "none"
    /\ gitDiff' = <<>>
    /\ cfg' = NilConfig
    /\ ctxDeadline' = FALSE
    /\ ctxErr' = NoError
    /\ expiredWhen' = "never"
    /\ messages' = <<>>
    /\ model' = ""
    /\ temperature' = 0
    /\ doCalls' = <<>>
    /\ httpResp' = NoResponse
    /\ clientResult' = NoClientReturn
    /\ result' = NoAssistReturn
    /\ cfgArg' = NilConfig
    /\ proc' = NoProc
    /\ UNCHANGED apiKey

Next ==
    \/ \E x \in ContextInputs, msgs \in ClientMessageLists, m \in Models, t \in Temperatures :
           ChatCompletionRequestCall(x, msgs, m, t)
    \/ \E x \in ContextInputs, d \in GitDiffs, c \in Configs :
           GetCommitMessageCall(x, d, c)
    \/ \E f \in Files, cf \in BOOLEAN, e \in {NoError, DeadlineExceeded} :
           CliAction(f, cf, e)
    \/ CliOpenFails
    \/ CliFinish
    \/ ApplyDefault
    \/ RejectStyle
    \/ SendRequest
    \/ \E r \in DoOutcomes(ctxErr) : DoFails(r)
    \/ \E r \in DoOutcomes(ctxErr) : DoSucceeds(r)
    \/ \E e \in ReadErrors(ctxErr) : DecodeBody(e)
    \/ Classify
    \/ ContextExpires
    \/ Return

Spec == Init /\ [][Next]_vars

\* every step of the invocation is taken once it can be, and the HTTP call
\* returns; the deadline and the next invocation are left to the environment
FairSpec ==
    /\ Spec
    /\ WF_vars(ApplyDefault)
    /\ WF_vars(RejectStyle)
    /\ WF_vars(SendRequest)
    /\ WF_vars(\E r \in DoOutcomes(ctxErr) : DoFails(r) \/ DoSucceeds(r))
    /\ WF_vars(\E e \in ReadErrors(ctxErr) : DecodeBody(e))
    /\ WF_vars(Classify)
    /\ WF_vars(CliFinish)

\* ================================================================ claims

\* C1: for every temperature t with t < 0 or t > 1, ChatCompletionRequest
\* returns an error and the HTTP Doer is never invoked, whatever the
\* messages, the model and the context are.
C1_InvalidTemperatureRejected ==
    (temperature < 0 \/ temperature > TempScale) =>
        /\ pc = "Done"
        /\ clientResult.err # NoError
        /\ clientResult.resp = ZeroChatCompletionResponse
        /\ doCalls = <<>>
        /\ httpResp = NoResponse

C1_Witness ==
    /\ pc = "Done"
    /\ entry = "client"
    /\ temperature = TempScale + 1
    /\ ctxErr = NoError
    /\ clientResult.err # NoError

\* C2: when the client returns exactly one answer and that answer does not
\* contain "unsure", GetCommitMessage returns no error, Message equal to the
\* answer verbatim (untrimmed) and Cost equal to the client's dollar cost
\* times 100.
C2_SingleAnswerAccepted ==
    LET plain == {AnsFeat, AnsPadded, AnsCapital}
    IN  (/\ entry = "assist"
         /\ pc = "Done"
         /\ clientResult.err = NoError
         /\ Len(clientResult.resp.Messages) = 1
         /\ clientResult.resp.Messages[1] \in plain) =>
            /\ result.err = NoError
            /\ result.resp.Message = clientResult.resp.Messages[1]
            /\ result.resp.Message = httpResp.Body.contents[1]
            /\ result.resp.Cost = clientResult.resp.Cost * 100

C2_Witness ==
    /\ entry = "assist"
    /\ pc = "Done"
    /\ result.err = NoError
    /\ result.resp.Message = AnsPadded
    /\ clientResult.resp.Cost = 2000
    /\ result.resp.Cost = 200000

\* C3: when the provider's 200 response, once read, contains zero choices or
\* two or more choices, GetCommitMessage fails with an UnexpectedStateError
\* whose text carries the observed number of answers.
C3_UnexpectedCount ==
    LET b == httpResp.Body
        n == IF b.hasChoices THEN Len(b.contents) ELSE 0
        digit == <<"0", "1", "2", "3", "4", "5">>
    IN  (/\ entry = "assist"
         /\ pc = "Done"
         /\ httpResp.err = NoError
         /\ httpResp.StatusCode = 200
         /\ b.kind = "object"
         /\ clientResult.err = NoError
         /\ n # 1) =>
            /\ Len(result.err) = 1
            /\ result.err[1].type = "commitassist.UnexpectedStateError"
            /\ result.err[1].msg =
                   <<"unexpected number of messages returned, got ", digit[n + 1]>>
            /\ result.resp = ZeroGetTypeResponse

C3_Witness ==
    /\ entry = "assist"
    /\ pc = "Done"
    /\ httpResp.StatusCode = 200
    /\ httpResp.Body.contents = <<AnsFeat, AnsFeat>>
    /\ Len(result.err) = 1
    /\ result.err[1].type = "commitassist.UnexpectedStateError"

\* C4: when the response has a single choice whose content contains
\* "unsure" at any position, GetCommitMessage fails with an UnsureError whose
\* message is exactly that content, and never returns it as a commit message.
C4_UnsureRejected ==
    LET b == httpResp.Body
        marked == {AnsUnsure, AnsUnsureMid, AnsUnsureOverlap}
    IN  (/\ entry = "assist"
         /\ pc = "Done"
         /\ httpResp.err = NoError
         /\ httpResp.StatusCode = 200
         /\ b.kind = "object"
         /\ clientResult.err = NoError
         /\ b.hasChoices
         /\ Len(b.contents) = 1
         /\ b.contents[1] \in marked) =>
            /\ Len(result.err) = 1
            /\ result.err[1].type = "commitassist.UnsureError"
            /\ result.err[1].msg = b.contents[1]
            /\ result.resp = ZeroGetTypeResponse

C4_Witness ==
    /\ entry = "assist"
    /\ pc = "Done"
    /\ httpResp.Body.contents = <<AnsUnsureMid>>
    /\ Len(result.err) = 1
    /\ result.err[1].type = "commitassist.UnsureError"
    /\ result.err[1].msg = AnsUnsureMid

\* C5: for every style identifier that is not one of the four enumerated
\* styles, ValidateMessageStyle returns an error, and GetCommitMessage with a
\* config carrying that style fails with that error without building the
\* message list or calling the client.
C5_UnknownStyleRejected ==
    LET enumerated == {"DescriptiveAndNeutral", "ConversationalAndCasual",
                       "ListBased", "ProblemSolution"}
    IN  (/\ entry = "assist"
         /\ ~cfg.isNil
         /\ cfg.Style \notin enumerated) =>
            /\ pc \in {"Start", "Validating", "Done"}
            /\ messages = <<>>
            /\ doCalls = <<>>
            /\ clientResult = NoClientReturn
            /\ pc = "Done" =>
                   /\ Len(result.err) = 1
                   /\ result.err[1].type = "*errors.errorString"
                   /\ result.err[1].msg = <<"invalid style ", "\"", cfg.Style, "\"">>
                   /\ result.resp = ZeroGetTypeResponse

C5_Witness ==
    /\ entry = "assist"
    /\ pc = "Done"
    /\ cfg.Style = "Poetic"
    /\ result.err # NoError
    /\ doCalls = <<>>

\* C6: the cost function of gpt-3.5-turbo returns exactly 0 for every token
\* count n <= 0 and n * 0.002 / 1000 dollars for every n > 0; so
\* Cost(1000) = 0.002, Cost(2000) = 2 * Cost(1000), and the cost is linear.
C6_CostOfReferenceModel ==
    LET b == httpResp.Body
        n == IF b.hasUsage THEN b.total_tokens ELSE 0
        c == clientResult.resp.Cost
    IN  (/\ pc \in {"Classifying", "Done"}
         /\ doCalls # <<>>
         /\ httpResp.err = NoError
         /\ httpResp.StatusCode = 200
         /\ clientResult.err = NoError
         /\ model = "gpt-3.5-turbo") =>
            /\ n <= 0 => c = 0
            /\ n > 0 => c * 1000 = n * 2 * (MoneyScale \div 1000)
            /\ n = 1000 => c * 1000 = 2 * MoneyScale
            /\ n = 2000 => c = 2 * ((2 * MoneyScale) \div 1000)

C6_Witness ==
    /\ pc = "Done"
    /\ model = "gpt-3.5-turbo"
    /\ httpResp.Body.total_tokens = 2000
    /\ clientResult.err = NoError
    /\ clientResult.resp.Cost = 4000

\* C7: for every style and every value of the conventional-commit flag, the
\* message list handed to the client has exactly four messages with roles
\* system, user, assistant, user; the second is the same fixed exemplar diff
\* in all configurations and the content of the fourth is the caller's
\* gitDiff.
C7_FourMessages ==
    (entry = "assist" /\ doCalls # <<>>) =>
        /\ Len(doCalls) = 1
        /\ doCalls[1].Body.Messages = messages
        /\ Len(messages) = 4
        /\ messages[1].Role = "system"
        /\ messages[2].Role = "user"
        /\ messages[3].Role = "assistant"
        /\ messages[4].Role = "user"
        /\ messages[2].Content = ExemplarDiff
        /\ messages[4].Content = gitDiff

C7_Witness ==
    /\ entry = "assist"
    /\ pc = "Requesting"
    /\ cfg.Style = "ListBased"
    /\ cfg.ConventionalCommitCompliant
    /\ gitDiff = <<"u", "n", "s", "u", "r", "e">>
    /\ Len(messages) = 4

\* C8: the JSON request body that ChatCompletionRequest sends carries in its
\* "temperature" field the temperature value that was passed in and
\* validated (0.2 for every call made through GetCommitMessage).
C8_TemperatureSerialized ==
    doCalls # <<>> =>
        /\ doCalls[1].Body.Temperature = temperature
        /\ entry = "assist" => doCalls[1].Body.Temperature = AssistTemperature

\* C9: when the caller's context is past its deadline before the call
\* starts, or its deadline passes while the HTTP call is in flight, a
\* ChatCompletionRequest that reaches the HTTP call fails with an error
\* classified as deadline-exceeded; the classification survives the wrapping
\* added by GetCommitMessage, and no other transport error carries it.
C9_DeadlineClassified ==
    (pc = "Done" /\ doCalls # <<>>) =>
        /\ expiredWhen \in {"beforeCall", "Start", "Validating", "Requesting"} =>
               /\ clientResult.err # NoError
               /\ ErrorsIs(clientResult.err, DeadlineExceeded)
               /\ entry = "assist" =>
                      /\ result.err # NoError
                      /\ result.err[1].type = "*fmt.wrapError"
                      /\ ErrorsIs(result.err, DeadlineExceeded)
                      /\ result.resp = ZeroGetTypeResponse
        /\ expiredWhen = "never" =>
               /\ ~ErrorsIs(clientResult.err, DeadlineExceeded)
               /\ ~ErrorsIs(result.err, DeadlineExceeded)

C9_Witness ==
    /\ entry = "assist"
    /\ pc = "Done"
    /\ expiredWhen = "Requesting"
    /\ Len(doCalls) = 1
    /\ ErrorsIs(result.err, DeadlineExceeded)

\* C10 as stated: a 200 response whose body is malformed JSON or lacks
\* required fields (no usage, no choices) makes ChatCompletionRequest fail
\* with a decode error.
C10_MissingFieldsFail ==
    LET b == httpResp.Body
    IN  (/\ pc \in {"Classifying", "Done"}
         /\ doCalls # <<>>
         /\ httpResp.err = NoError
         /\ httpResp.StatusCode = 200
         /\ \/ b.kind \in {"malformed", "empty", "badtype"}
            \/ ~b.hasUsage
            \/ ~b.hasChoices) =>
            /\ clientResult.err # NoError
            /\ clientResult.err[1].msg = <<"could not decode response: ">>

\* C10 amended: a 200 response whose body is not valid JSON of the expected
\* types makes ChatCompletionRequest fail with a decode error, and only a
\* failed read of a 200 body yields that error (transport and status errors
\* never carry it); a well-formed body that lacks usage or choices is
\* decoded without error, the missing members being zero tokens (cost 0)
\* and no answers.
C10_MalformedBodyFails ==
    LET b == httpResp.Body
        e == clientResult.err
        decodeError == e # NoError /\ e[1].msg = <<"could not decode response: ">>
    IN  (pc \in {"Classifying", "Done"} /\ doCalls # <<>>) =>
            /\ (/\ httpResp.err = NoError
                /\ httpResp.StatusCode = 200
                /\ b.kind \in {"malformed", "empty", "badtype"}) =>
                   /\ decodeError
                   /\ e[1].type = "*fmt.wrapError"
                   /\ Len(e) = 2
                   /\ \A i \in 1..Len(e) : e[i].type # "*url.Error"
            /\ decodeError => (httpResp.err = NoError /\ httpResp.StatusCode = 200)
            /\ (/\ httpResp.err = NoError
                /\ httpResp.StatusCode = 200
                /\ b.kind = "object"
                /\ ctxErr = NoError) =>
                   /\ e = NoError
                   /\ ~b.hasUsage => clientResult.resp.Cost = 0
                   /\ ~b.hasChoices => clientResult.resp.Messages = <<>>

C10_Witness ==
    /\ pc = "Done"
    /\ httpResp.StatusCode = 200
    /\ httpResp.Body.kind = "malformed"
    /\ clientResult.err # NoError
    /\ clientResult.err[1].msg = <<"could not decode response: ">>

\* C11: for every HTTP response whose status code is not 200,
\* ChatCompletionRequest returns an error carrying the status description,
\* does not decode the body, and returns no answers and no cost.
C11_Non200Fails ==
    (httpResp.err = NoError /\ httpResp.StatusCode \notin {0, 200}) =>
        /\ pc \in {"Done", "Exited"}
        /\ clientResult.err =
               << [type |-> "*errors.errorString",
                   msg |-> <<"got status code ", "\"", httpResp.Status, "\"",
                             ", expected ", "2", "0", "0">>] >>
        /\ clientResult.resp.Messages = <<>>
        /\ clientResult.resp.Cost = 0
        /\ clientResult.resp = ZeroChatCompletionResponse

C11_Witness ==
    /\ pc = "Done"
    /\ entry = "client"
    /\ httpResp.StatusCode = 429
    /\ httpResp.Body.kind = "object"
    /\ httpResp.Body.total_tokens = 1000
    /\ clientResult.err # NoError
    /\ clientResult.resp.Messages = <<>>

\* C12: every invocation of GetCommitMessage that passes validation performs
\* exactly one HTTP request and no invocation performs more than one: after
\* any failure the invocation ends without another request.
C12_OneRequest ==
    LET enumerated == {"DescriptiveAndNeutral", "ConversationalAndCasual",
                       "ListBased", "ProblemSolution"}
    IN  /\ Len(doCalls) <= 1
        /\ (entry = "assist" /\ pc \in {"Requesting", "Decoding", "Classifying"}) =>
               Len(doCalls) = 1
        /\ (entry = "assist" /\ pc \in {"Done", "Exited"}) =>
               Len(doCalls) = (IF cfg.Style \in enumerated THEN 1 ELSE 0)
        /\ (entry = "assist" /\ pc \in {"Start", "Validating"}) => doCalls = <<>>

C12_Witness ==
    /\ entry = "assist"
    /\ pc = "Done"
    /\ Len(doCalls) = 1
    /\ httpResp.StatusCode = 500
    /\ result.err # NoError

\* C13: every invocation of GetCommitMessage goes through Start, Validating,
\* Requesting (the HTTP call and the read of its body), Classifying in that
\* order without going back; provided the HTTP call returns it eventually
\* ends, in exactly one of the outcomes Invalid, Transport/Timeout/Decode
\* failure, UnexpectedCount, Unsure or Success, and an error is returned in
\* every outcome except Success.
C13_Lifecycle ==
    /\ [][LET successors ==
                  [p \in {"Idle", "Start", "Validating", "Requesting", "Decoding",
                          "Classifying", "Done", "Exited"} |->
                      CASE p = "Idle" -> {"Idle", "Start", "Requesting", "Done", "Exited"}
                        [] p = "Start" -> {"Start", "Validating"}
                        [] p = "Validating" -> {"Validating", "Requesting", "Done"}
                        [] p = "Requesting" -> {"Requesting", "Decoding", "Done"}
                        [] p = "Decoding" -> {"Decoding", "Classifying", "Done"}
                        [] p = "Classifying" -> {"Classifying", "Done"}
                        [] p = "Done" -> {"Done", "Exited", "Idle"}
                        [] p = "Exited" -> {"Exited", "Idle"}]
          IN  entry = "assist" => pc' \in successors[pc]]_vars
    /\ [](LET marked == {AnsUnsure, AnsUnsureMid, AnsUnsureOverlap}
              e == result.err
              answers == clientResult.resp.Messages
              invalid == doCalls = <<>>
              failed == doCalls # <<>> /\ clientResult.err # NoError
              count == doCalls # <<>> /\ clientResult.err = NoError /\ Len(answers) # 1
              unsure == /\ doCalls # <<>> /\ clientResult.err = NoError
                        /\ Len(answers) = 1 /\ answers[1] \in marked
              success == /\ doCalls # <<>> /\ clientResult.err = NoError
                         /\ Len(answers) = 1 /\ answers[1] \notin marked
              kInvalid == /\ Len(e) = 1 /\ e[1].type = "*errors.errorString"
                          /\ e[1].msg[1] = "invalid style "
              kFailed == /\ Len(e) >= 2 /\ e[1].type = "*fmt.wrapError"
                         /\ e[1].msg = <<"could not do ChatCompletionRequest: ">>
              kCount == Len(e) = 1 /\ e[1].type = "commitassist.UnexpectedStateError"
              kUnsure == Len(e) = 1 /\ e[1].type = "commitassist.UnsureError"
              kSuccess == e = <<>>
          IN  (entry = "assist" /\ pc = "Done") =>
                 /\ invalid <=> kInvalid
                 /\ failed <=> kFailed
                 /\ count <=> kCount
                 /\ unsure <=> kUnsure
                 /\ success <=> kSuccess
                 /\ Cardinality({k \in {<<1, kInvalid>>, <<2, kFailed>>, <<3, kCount>>,
                                         <<4, kUnsure>>, <<5, kSuccess>>} : k[2]}) = 1)
    /\ ((entry = "assist" /\ pc = "Start") ~> (entry = "assist" /\ pc = "Done"))

C13_Witness ==
    /\ entry = "assist"
    /\ pc = "Done"
    /\ Len(doCalls) = 1
    /\ expiredWhen = "Classifying"
    /\ result.err = NoError
    /\ result.resp.Message = AnsCapital

\* C14: GetCommitMessage called with a nil config behaves exactly like a
\* call with the explicit config {DescriptiveAndNeutral, false}: once the
\* default is applied the invocation holds that very config, it sends the
\* message list that config yields for the same diff, and what it returns is
\* fixed by the provider's behaviour alone.
C14_NilIsDefault ==
    LET explicit == [isNil |-> FALSE, Style |-> "DescriptiveAndNeutral",
                     ConventionalCommitCompliant |-> FALSE]
    IN  (entry = "assist" /\ cfgArg.isNil /\ pc \notin {"Idle", "Start"}) =>
            /\ cfg = explicit
            /\ pc # "Validating" =>
                   /\ Len(doCalls) = 1
                   /\ messages = BuildMessages(explicit, gitDiff)
                   /\ doCalls[1].Body.Messages = BuildMessages(explicit, gitDiff)
            /\ pc = "Done" =>
                   result = (IF clientResult.err # NoError
                             THEN ClientFailure(clientResult.err)
                             ELSE Classification(clientResult.resp))

C14_Witness ==
    /\ entry = "assist"
    /\ proc.caller = "none"
    /\ cfgArg.isNil
    /\ pc = "Done"
    /\ Len(messages) = 4
    /\ result.err = NoError
    /\ result.resp.Message = AnsFeat

\* C15: for every temperature in [0, 1], endpoints included, and every 200
\* response with a well-formed body, ChatCompletionRequest succeeds and
\* returns one answer per element of choices, each equal to that choice's
\* message.content, in the provider's order.
C15_AnswersInOrder ==
    LET b == httpResp.Body
    IN  (/\ pc \in {"Classifying", "Done", "Exited"}
         /\ doCalls # <<>>
         /\ 0 <= temperature
         /\ temperature <= TempScale
         /\ httpResp.err = NoError
         /\ httpResp.StatusCode = 200
         /\ b.kind = "object"
         /\ b.hasChoices
         /\ (ctxErr = NoError \/ clientResult.err = NoError)) =>
            /\ clientResult.err = NoError
            /\ Len(clientResult.resp.Messages) = Len(b.contents)
            /\ \A i \in 1..Len(b.contents) : clientResult.resp.Messages[i] = b.contents[i]

C15_Witness ==
    /\ entry = "client"
    /\ pc = "Done"
    /\ temperature = TempScale
    /\ clientResult.err = NoError
    /\ clientResult.resp.Messages = <<AnsPadded, AnsFeat>>

\* C16: the conventional-commit flag, and nothing else, controls the
\* conventional-commit content of the prompt: the system message contains
\* the instruction to use the conventional commit standard iff the flag is
\* true, and the exemplar answer is the style's fixed answer, prefixed with
\* "feat: " iff the flag is true.
C16_FlagControlsPrompt ==
    LET instruction ==
            "Use the conventional commit standard, including any breaking changes, which should be denoted with a '!' (e.g., 'feat!')."
        subjects ==
            [st \in {"DescriptiveAndNeutral", "ConversationalAndCasual",
                     "ListBased", "ProblemSolution"} |->
                CASE st = "DescriptiveAndNeutral" -> "Add README.md to explain the tool usage\n\n"
                  [] st = "ConversationalAndCasual" -> "Unleashing a brand new README.md to demystify our OpenAI-powered commit message wizardry!\n\n"
                  [] st = "ListBased" -> "Introducing README.md to illuminate tool usage\n\n "
                  [] st = "ProblemSolution" -> "Addressing the lack of clarity with new README.md\n\n"]
    IN  (entry = "assist" /\ doCalls # <<>>) =>
            LET sys == messages[1].Content
                ex == messages[3].Content
                flag == cfg.ConventionalCommitCompliant
                plain == IF ex[1] = "feat: " THEN Tail(ex) ELSE ex
            IN  /\ (\E i \in 1..Len(sys) : sys[i] = instruction) <=> flag
                /\ (ex[1] = "feat: ") <=> flag
                /\ plain[1] = subjects[cfg.Style]
                /\ Len(plain) = 2
                /\ doCalls[1].Body.Messages[1].Content = sys
                /\ doCalls[1].Body.Messages[3].Content = ex

C16_Witness ==
    /\ entry = "assist"
    /\ pc = "Requesting"
    /\ cfg.Style = "ProblemSolution"
    /\ cfg.ConventionalCommitCompliant
    /\ messages[3].Content[1] = "feat: "
    /\ Len(messages[1].Content) = 5

\* C17: whenever GetCommitMessage returns an error to the CLI, the process
\* prints the text of handleError only (never the line for response.Message
\* nor the cost line) and exits with 3 for UnsureError, 2 for
\* UnexpectedStateError, 4 for a deadline-exceeded error and 5 for any other
\* error; it exits with status 0 only when the call returned no error, after
\* printing response.Message as the first line.
C17_ExitCodes ==
    (proc.caller = "cli" /\ proc.exited /\ entry = "assist") =>
        LET e == result.err
            unsure == e # <<>> /\ e[1].type = "commitassist.UnsureError"
            count == e # <<>> /\ e[1].type = "commitassist.UnexpectedStateError"
            deadline ==
                /\ ~unsure
                /\ ~count
                /\ \E i \in 1..Len(e) : e[i].type = "context.deadlineExceededError"
            other == e # <<>> /\ ~unsure /\ ~count /\ ~deadline
            out == proc.stdout
        IN  /\ pc = "Exited"
            /\ unsure => proc.status = 3 /\ out = <<e[1].msg>>
            /\ count => proc.status = 2 /\ Len(out) = 1
            /\ deadline => proc.status = 4 /\ Len(out) = 3
            /\ other =>
                   /\ proc.status = 5
                   /\ Len(out) = 1
                   /\ HasPrefix(out[1], <<"Unknown error ">>)
            /\ e # <<>> =>
                   /\ proc.status # 0
                   /\ \A i \in 1..Len(out) : ~HasPrefix(out[i], <<"Cost ">>)
                   /\ ~unsure => \A i \in 1..Len(out) : out[i] \notin Answers \cup {<<>>}
            /\ proc.status = 0 =>
                   /\ e = <<>>
                   /\ out # <<>>
                   /\ out[1] = result.resp.Message
                   /\ out[1] = clientResult.resp.Messages[1]
                   /\ Len(out) = (IF proc.costFlag THEN 2 ELSE 1)

C17_Witness ==
    /\ pc = "Exited"
    /\ proc.caller = "cli"
    /\ entry = "assist"
    /\ expiredWhen = "Requesting"
    /\ ErrorsIs(result.err, DeadlineExceeded)
    /\ Len(result.err) > 1
    /\ proc.status = 4

\* C18: every client call made by GetCommitMessage uses the model
\* gpt-3.5-turbo and the temperature 0.2, whatever the diff and the config;
\* so the call always passes the client's temperature check, a request
\* reaches Do, and no temperature error is ever returned.
C18_FixedModelAndTemperature ==
    (/\ entry = "assist"
     /\ pc \in {"Requesting", "Decoding", "Classifying", "Done", "Exited"}
     /\ ValidateMessageStyle(cfg.Style).err = NoError) =>
        /\ model = "gpt-3.5-turbo"
        /\ temperature * 10 = 2 * TempScale
        /\ Len(doCalls) = 1
        /\ doCalls[1].Body.Model = "gpt-3.5-turbo"
        /\ \A i \in 1..Len(result.err) :
               ~HasPrefix(result.err[i].msg, <<"temperature must be between 0 and 1 (inclusive), got ">>)

C18_Witness ==
    /\ entry = "assist"
    /\ pc = "Done"
    /\ cfg.Style = "ListBased"
    /\ cfg.ConventionalCommitCompliant
    /\ gitDiff # <<>>
    /\ temperature = AssistTemperature
    /\ Len(doCalls) = 1
    /\ result.err = NoError

\* C19: readFile returns the content of the file with exactly the lines
\* that start with "#" left out: the lines of the result are the other
\* lines of the file, in file order, each still a line of its own.
C19_LinesKept ==
    (proc.caller = "cli" /\ entry = "assist") =>
        LET keep(line) == ~HasPrefix(line, <<"#">>)
        IN  ScanLines(gitDiff) = SelectSeq(ScanLines(proc.file), keep)

\* C20: in every outcome other than Success GetCommitMessage returns the
\* zero GetTypeResponse, empty Message and Cost 0, even when the provider
\* reported a positive token usage and the client computed a cost and
\* answers for the failed invocation.
C20_ZeroResponseOnError ==
    (entry = "assist" /\ pc \in {"Done", "Exited"}) =>
        /\ result.err # NoError =>
               /\ result.resp.Message = <<>>
               /\ result.resp.Cost = 0
        /\ result.err = NoError =>
               /\ result.resp.Message = clientResult.resp.Messages[1]
               /\ result.resp.Cost = clientResult.resp.Cost * 100

C20_Witness ==
    /\ entry = "assist"
    /\ pc = "Done"
    /\ result.err # NoError
    /\ result.err[1].type = "commitassist.UnsureError"
    /\ clientResult.err = NoError
    /\ clientResult.resp.Cost > 0
    /\ clientResult.resp.Messages = <<AnsUnsureMid>>
    /\ result.resp = [Message |-> <<>>, Cost |-> 0]

\* C21: classification checks the answer count before the unsure marker:
\* when the provider returns two or more answers, whether or not any of them
\* contains "unsure", the outcome is UnexpectedStateError carrying the count,
\* never UnsureError; an UnsureError is returned only when there was exactly
\* one answer, and that answer contains the marker.
C21_CountBeforeUnsure ==
    (entry = "assist" /\ pc \in {"Done", "Exited"}) =>
        LET answers == clientResult.resp.Messages
            n == Len(answers)
            e == result.err
        IN  /\ n >= 2 =>
                   /\ Len(e) = 1
                   /\ e[1].type = "commitassist.UnexpectedStateError"
                   /\ e[1].msg = <<"unexpected number of messages returned, got ">> \o Itoa(n)
            /\ (e # <<>> /\ e[1].type = "commitassist.UnsureError") =>
                   /\ n = 1
                   /\ \E i \in 1..(Len(answers[1]) - 5) :
                          SubSeq(answers[1], i, i + 5) = <<"u", "n", "s", "u", "r", "e">>
                   /\ e[1].msg = answers[1]

C21_Witness ==
    /\ entry = "assist"
    /\ pc = "Done"
    /\ clientResult.err = NoError
    /\ Len(clientResult.resp.Messages) = 2
    /\ clientResult.resp.Messages[1] = AnsUnsure
    /\ result.err # NoError
    /\ result.err[1].type = "commitassist.UnexpectedStateError"

\* C22: the default style applies only when the config pointer is nil: a
\* non-nil MessageConfig whose Style is the empty string is left as passed,
\* fails style validation with the invalid-style error, and no message list
\* is built and no request is sent.
C22_EmptyStyleNotDefaulted ==
    (entry = "assist" /\ ~cfgArg.isNil /\ cfgArg.Style = "") =>
        /\ cfg = cfgArg
        /\ pc \in {"Start", "Validating", "Done"}
        /\ messages = <<>>
        /\ doCalls = <<>>
        /\ pc = "Done" =>
               /\ result.err = <<[type |-> "*errors.errorString",
                                  msg |-> <<"invalid style ", "\"", "", "\"">>]>>
               /\ result.resp = [Message |-> <<>>, Cost |-> 0]

C22_Witness ==
    /\ entry = "assist"
    /\ pc = "Done"
    /\ ~cfgArg.isNil
    /\ cfgArg.Style = ""
    /\ cfg.Style = ""
    /\ result.err # NoError
    /\ doCalls = <<>>

====
